---- MODULE Spec2Model ----
(***************************************************************************)
(* linkrottie: the threaded task queue (linkrottie/taskqueue.py), the      *)
(* recursive mirroring task (linkrottie/git.py, Local.mirror_repo) and the *)
(* remote address algebra (linkrottie/git.py, RemoteRepo).                 *)
(*                                                                         *)
(* Python strings are modelled as sequences of one-character strings, so   *)
(* that parsing, joining and serialising are computed character by         *)
(* character as the code computes them.                                    *)
(***************************************************************************)
EXTENDS Integers, Sequences, FiniteSets, TLC

(***************************************************************************)
(* Bounds of the model.                                                    *)
(***************************************************************************)
\* largest worker count (max_tasks) a run is started with
MaxTasks == 2
\* the test task submits n+1 and n*2 while n < TaskLimit (10 in the test)
TaskLimit == 3
\* largest number of leading "../" segments of a relative URL
MaxUp == 3

(***************************************************************************)
(* Strings.                                                                *)
(***************************************************************************)
Digits == {"0", "1", "2", "3", "4", "5", "6", "7", "8", "9"}

Letters ==
    {"a", "b", "c", "d", "e", "f", "g", "h", "i", "j", "k", "l", "m",
     "n", "o", "p", "q", "r", "s", "t", "u", "v", "w", "x", "y", "z"}

\* \w of the regular expressions (the model's strings are lower case)
WordChars == Letters \cup Digits \cup {"_"}

\* the characters [^/?#@:] excludes
Special == {"/", "?", "#", "@", ":"}

\* the character . excludes
Newline == {"\n"}

\* the one element of a set. The({e(x) : x \in {v}}) is e(v) with v evaluated
\* once, as an assignment to a local variable evaluates its right-hand side
The(S) == CHOOSE x \in S : TRUE

\* str.startswith
StartsWith(s, prefix) ==
    /\ Len(s) >= Len(prefix)
    /\ SubSeq(s, 1, Len(prefix)) = prefix

\* s[n:]
Drop(s, k) == IF k >= Len(s) THEN <<>> ELSE SubSeq(s, k + 1, Len(s))

\* s[:n]
Take(s, k) ==
    IF k <= 0 THEN <<>> ELSE SubSeq(s, 1, IF k > Len(s) THEN Len(s) ELSE k)

\* length of the longest prefix of str made of characters of set: what a
\* greedy \w+, \d+ or \s* consumes
LeadIn(str, set) ==
    The({ CHOOSE k \in 0..Len(s) :
              /\ \A i \in 1..k : s[i] \in set
              /\ k = Len(s) \/ s[k + 1] \notin set
          : s \in {str} })

\* length of the longest prefix of str made of characters outside set: what a
\* greedy [^...]+ or .* consumes
LeadNotIn(str, set) ==
    The({ CHOOSE k \in 0..Len(s) :
              /\ \A i \in 1..k : s[i] \notin set
              /\ k = Len(s) \/ s[k + 1] \in set
          : s \in {str} })

\* the character at position i, or "" past the end
At(s, i) == IF i >= 1 /\ i <= Len(s) THEN s[i] ELSE ""

\* a partition at the first '/' instead of the last
RPartitionHead_First(path) ==
    The({ Take(p, LeadNotIn(p, {"/"})) : p \in {path} })

\* str.rpartition('/')[0]: what precedes the last '/', '' when there is none
RPartitionHead(path) ==
    The({ LET idx == {i \in 1..Len(p) : p[i] = "/"}
          IN  IF idx = {} THEN <<>>
              ELSE Take(p, (CHOOSE i \in idx : \A j \in idx : j <= i) - 1)
          : p \in {path} })

\* str.lstrip('/')
LStripSlash(path) == The({ Drop(p, LeadIn(p, {"/"})) : p \in {path} })

(***************************************************************************)
(* RemoteRepo: the parts of a remote address, and its three variants.      *)
(***************************************************************************)
RemoteRepo(variant, scheme, user, host, port, path) ==
    [variant |-> variant, scheme |-> scheme, user |-> user,
     host |-> host, port |-> port, path |-> path]

NoMatch == [matched |-> FALSE]

\* (\w+):// at the start of the string
MatchScheme(str) ==
    The({ LET k == LeadIn(s, WordChars)
          IN  [ok |-> k >= 1 /\ Take(Drop(s, k), 3) = <<":", "/", "/">>,
               scheme |-> Take(s, k),
               rest |-> Drop(s, k + 3)]
          : s \in {str} })

\* ([^/?#@:]+@)? at the start of the string
MatchUser(str) ==
    The({ LET k == LeadNotIn(s, Special)
              hasUser == k >= 1 /\ At(s, k + 1) = "@"
          IN  [user |-> IF hasUser THEN Take(s, k + 1) ELSE <<>>,
               rest |-> IF hasUser THEN Drop(s, k + 1) ELSE s]
          : s \in {str} })

\* ([^/?#@:]*) at the start of the string
MatchHost(str) ==
    The({ LET k == LeadNotIn(s, Special)
          IN  [host |-> Take(s, k), rest |-> Drop(s, k)]
          : s \in {str} })

\* (:\d+)? at the start of the string, a '/' to follow
MatchPort(str) ==
    The({ LET k == LeadIn(Drop(s, 1), Digits)
              hasPort == At(s, 1) = ":" /\ k >= 1 /\ At(s, k + 2) = "/"
          IN  [port |-> IF hasPort THEN Take(s, k + 1) ELSE <<>>,
               rest |-> IF hasPort THEN Drop(s, k + 1) ELSE s]
          : s \in {str} })

\* (.*) at the start of the string
MatchRest(str) == The({ Take(s, LeadNotIn(s, Newline)) : s \in {str} })

\* (\w+)://([^/?#@:]+@)?([^/?#@:]+)(:\d+)?(/.*)
MatchUrl(url) ==
    LET s1 == MatchScheme(url)
        s2 == MatchUser(s1.rest)
        s3 == MatchHost(s2.rest)
        s4 == MatchPort(s3.rest)
    IN  IF s1.ok
        THEN The({ IF m[3].host # <<>> /\ At(m[4].rest, 1) = "/"
                   THEN [matched |-> TRUE, scheme |-> m[1].scheme,
                         user |-> m[2].user, host |-> m[3].host,
                         port |-> m[4].port, path |-> MatchRest(m[4].rest)]
                   ELSE NoMatch
                   : m \in {<<s1, s2, s3, s4>>} })
        ELSE NoMatch

\* ([^/?#@:]+@)?([^/?#@:]*):(.*)
MatchScp(url) ==
    LET s2 == MatchUser(url)
        s3 == MatchHost(s2.rest)
    IN  The({ IF At(m[2].rest, 1) = ":"
              THEN [matched |-> TRUE, user |-> m[1].user, host |-> m[2].host,
                    path |-> MatchRest(Drop(m[2].rest, 1))]
              ELSE NoMatch
              : m \in {<<s2, s3>>} })

FilePrefix == <<"f", "i", "l", "e", ":", "/", "/">>

\* a parse_url that tries the SCP pattern before the URL pattern
parse_url_ScpFirst(url) ==
    The({ IF m[2].matched
          THEN RemoteRepo("Scp", <<>>, m[2].user, m[2].host, <<>>, m[2].path)
          ELSE IF m[1].matched
          THEN RemoteRepo("Url", m[1].scheme, m[1].user, m[1].host, m[1].port,
                          m[1].path)
          ELSE IF StartsWith(m[3], FilePrefix)
          THEN RemoteRepo("File", FilePrefix, <<>>, <<>>, <<>>, Drop(m[3], 7))
          ELSE RemoteRepo("File", <<>>, <<>>, <<>>, <<>>, m[3])
          : m \in {<<MatchUrl(url), MatchScp(url), url>>} })

\* RemoteRepo.parse_url
parse_url(url) ==
    The({ IF m[1].matched
          THEN RemoteRepo("Url", m[1].scheme, m[1].user, m[1].host, m[1].port,
                          m[1].path)
          ELSE IF m[2].matched
          THEN RemoteRepo("Scp", <<>>, m[2].user, m[2].host, <<>>, m[2].path)
          ELSE IF StartsWith(m[3], FilePrefix)
          THEN RemoteRepo("File", FilePrefix, <<>>, <<>>, <<>>, Drop(m[3], 7))
          ELSE RemoteRepo("File", <<>>, <<>>, <<>>, <<>>, m[3])
          : m \in {<<MatchUrl(url), MatchScp(url), url>>} })

\* a deparse that leaves the user out
deparse_NoUser(repo) ==
    The({ CASE r.variant = "Url" ->
                  r.scheme \o <<":", "/", "/">> \o r.host \o r.port \o r.path
            [] r.variant = "Scp" -> r.host \o <<":">> \o r.path
            [] r.variant = "File" -> r.host \o r.path
          : r \in {repo} })

\* RemoteRepoUrl.deparse / RemoteRepoScp.deparse / RemoteRepoFile.deparse
deparse(repo) ==
    The({ CASE r.variant = "Url" ->
                  r.scheme \o <<":", "/", "/">> \o r.user \o r.host
                      \o r.port \o r.path
            [] r.variant = "Scp" -> r.user \o r.host \o <<":">> \o r.path
            [] r.variant = "File" -> r.host \o r.path
          : r \in {repo} })

DotDotSlash == <<".", ".", "/">>

\* the while loop of join_url: one "../" of relative against one component of p
RECURSIVE JoinUp(_, _)
JoinUp(relative, p) ==
    The({ IF StartsWith(x[1], DotDotSlash)
          THEN JoinUp(Drop(x[1], 3), RPartitionHead(x[2]))
          ELSE [relative |-> x[1], p |-> x[2]]
          : x \in {<<relative, p>>} })

\* RemoteRepo.join_url
join_url(repo, relative) ==
    The({ LET rooted == StartsWith(x[2], <<"/">>)
              up == JoinUp(IF rooted THEN Drop(x[2], 1) ELSE x[2],
                           IF rooted THEN <<>> ELSE x[1].path)
          IN  The({ RemoteRepo(x[1].variant, x[1].scheme, x[1].user, x[1].host,
                               x[1].port,
                               IF u.relative # <<>>
                               THEN u.p \o <<"/">> \o u.relative
                               ELSE u.p)
                    : u \in {up} })
          : x \in {<<repo, relative>>} })

(***************************************************************************)
(* State.                                                                  *)
(***************************************************************************)
VARIABLES
    \* ThreadedTaskQueue
    queue,              \* self._queue: the pending items, oldest first
    unfinished_tasks,   \* the queue's count of items put and not yet task_done
    next_task,          \* self._next_task
    max_tasks,          \* the number of threads the queue was built with
    thread,             \* thread -> where it is in _runthread
    cur,                \* thread -> the item it dequeued last
    todo,               \* thread -> what the running task has still to submit
    raised,             \* thread -> what the running task raised
    \* the caller of the queue (test_taskqueue, main)
    mainpc,             \* where the caller is
    seeds,              \* the tasks the caller has still to append
    n,                  \* the caller's loop index in runall
    rc,                 \* what main returned
    \* the test's tasks
    ctr,                \* the test's Counter
    failing,            \* the task numbers whose action raises
    failearly,          \* whether they raise before or after submitting
    executed,           \* item -> how often "Executing" was logged for it
    \* Local
    aliases,            \* self.aliases, in configured order
    already_mirrored,   \* self.already_mirrored
    dirs,               \* the local paths that are directories
    gitmodules,         \* local path -> lines of HEAD:.gitmodules there
    invocations,        \* local path -> clone and update invocations so far
    returncode,         \* thread -> result.returncode of its clone or update
    local,              \* thread -> the local path mirror_repo works on
    \* the address algebra
    j_remote, j_rel, j_repo, j_out, j_url, jpc,
    j_back,             \* the address parse_url makes of j_url
    \* the submodules file
    submodules_file,    \* the lines of the text get_submodules_file returned
    urls,               \* what _get_submodules yielded
    xpc,
    \* the runs of main
    run_number,         \* the number of the run: 1, and 2 for the run after it
    stored              \* the local paths that were directories when it began

tqvars == <<queue, unfinished_tasks, next_task, max_tasks, thread, cur, todo,
            raised, mainpc, seeds, n, rc, executed>>
testvars == <<ctr, failing, failearly>>
localvars == <<aliases, already_mirrored, dirs, gitmodules, invocations,
               returncode, local>>
joinvars == <<j_remote, j_rel, j_repo, j_out, j_url, jpc, j_back>>

extractvars == <<submodules_file, urls, xpc>>
runvars == <<run_number, stored>>
vars == <<tqvars, testvars, localvars, joinvars, extractvars, runvars>>

\* a queue that makes one thread more than max_tasks
ThreadCount_OneMore == max_tasks + 1

\* __init__: self._threads, one threading.Thread for each _ in range(max_tasks)
ThreadCount == max_tasks

Threads == 1..ThreadCount

NoTask == [action |-> "none", args |-> <<>>]

\* a collections.Counter: a missing key counts as 0
Count(c, k) == IF k \in DOMAIN c THEN c[k] ELSE 0

Incr(c, k) ==
    IF k \in DOMAIN c THEN [c EXCEPT ![k] = @ + 1] ELSE c @@ (k :> 1)

(***************************************************************************)
(* ThreadedTaskQueue.                                                      *)
(***************************************************************************)
\* an append whose put does not count the item as unfinished
append_NoCount(task) ==
    /\ next_task' = next_task + 1
    /\ queue' = Append(queue, task)
    /\ unfinished_tasks' = unfinished_tasks

\* ThreadedTaskQueue.append: count the task, then Queue.put, which adds the
\* item and counts it as unfinished in one locked step
append(task) ==
    /\ next_task' = next_task + 1
    /\ queue' = Append(queue, task)
    /\ unfinished_tasks' = unfinished_tasks + 1

\* a runall that sends one termination notice too many
KillCount_OneMore == ThreadCount + 1

\* a runall that sends one termination notice too few
KillCount_OneShort == max_tasks - 1

\* the number of termination notices runall appends
KillCount == ThreadCount

\* a join that only waits for the pending list to be empty
JoinReturns_PendingEmpty == queue = <<>>

\* a join that returns while one item is still unfinished
JoinReturns_OneLeft == unfinished_tasks <= 1

\* Queue.join: blocks while an item is unfinished
JoinReturns == unfinished_tasks = 0

\* the caller appends its next initial task (before runall)
Seed ==
    /\ mainpc = "seed"
    /\ seeds # <<>>
    /\ append(Head(seeds))
    /\ seeds' = Tail(seeds)
    /\ UNCHANGED <<max_tasks, thread, cur, todo, raised, mainpc, n, rc, executed>>
    /\ UNCHANGED <<runvars, testvars, localvars, joinvars, extractvars>>

\* the caller calls runall
RunAll ==
    /\ mainpc = "seed"
    /\ seeds = <<>>
    /\ mainpc' = "start"
    /\ n' = 1
    /\ UNCHANGED <<queue, unfinished_tasks, next_task, max_tasks, thread, cur,
                   todo, raised, seeds, rc, executed>>
    /\ UNCHANGED <<runvars, testvars, localvars, joinvars, extractvars>>

\* runall: for t in self._threads: t.start()
StartThread ==
    /\ mainpc = "start"
    /\ n <= ThreadCount
    /\ thread' = [thread EXCEPT ![n] = "get"]
    /\ n' = n + 1
    /\ UNCHANGED <<queue, unfinished_tasks, next_task, max_tasks, cur, todo,
                   raised, mainpc, seeds, rc, executed>>
    /\ UNCHANGED <<runvars, testvars, localvars, joinvars, extractvars>>

\* runall: all threads are started; self._queue.join() is entered
StartJoin ==
    /\ mainpc = "start"
    /\ n > ThreadCount
    /\ mainpc' = "join"
    /\ UNCHANGED <<queue, unfinished_tasks, next_task, max_tasks, thread, cur,
                   todo, raised, seeds, n, rc, executed>>
    /\ UNCHANGED <<runvars, testvars, localvars, joinvars, extractvars>>

\* runall: self._queue.join() returns
QueueJoin ==
    /\ mainpc = "join"
    /\ JoinReturns
    /\ mainpc' = "kill"
    /\ n' = 0
    /\ UNCHANGED <<queue, unfinished_tasks, next_task, max_tasks, thread, cur,
                   todo, raised, seeds, rc, executed>>
    /\ UNCHANGED <<runvars, testvars, localvars, joinvars, extractvars>>

\* runall: self.append(self._killthread, desc=f'Terminate {n}')
SendKill ==
    /\ mainpc = "kill"
    /\ n < KillCount
    /\ append([action |-> "_killthread", args |-> <<>>])
    /\ n' = n + 1
    /\ UNCHANGED <<max_tasks, thread, cur, todo, raised, mainpc, seeds, rc,
                   executed>>
    /\ UNCHANGED <<runvars, testvars, localvars, joinvars, extractvars>>

\* runall: the termination notices are sent; the joins of the threads begin
StartWait ==
    /\ mainpc = "kill"
    /\ n >= KillCount
    /\ mainpc' = "wait"
    /\ n' = 1
    /\ UNCHANGED <<queue, unfinished_tasks, next_task, max_tasks, thread, cur,
                   todo, raised, seeds, rc, executed>>
    /\ UNCHANGED <<runvars, testvars, localvars, joinvars, extractvars>>

\* runall: t.join() returns for the next thread
ThreadJoin ==
    /\ mainpc = "wait"
    /\ n <= ThreadCount
    /\ thread[n] = "exited"
    /\ n' = n + 1
    /\ UNCHANGED <<queue, unfinished_tasks, next_task, max_tasks, thread, cur,
                   todo, raised, mainpc, seeds, rc, executed>>
    /\ UNCHANGED <<runvars, testvars, localvars, joinvars, extractvars>>

\* runall returns, and main returns 0
Return ==
    /\ mainpc = "wait"
    /\ n > ThreadCount
    /\ mainpc' = "returned"
    /\ rc' = 0
    /\ UNCHANGED <<queue, unfinished_tasks, next_task, max_tasks, thread, cur,
                   todo, raised, seeds, n, executed>>
    /\ UNCHANGED <<runvars, testvars, localvars, joinvars, extractvars>>

(***************************************************************************)
(* The tasks of test_taskqueue.                                            *)
(***************************************************************************)
TestTask(k) == [action |-> "task", args |-> <<k>>]

\* task(n): what it submits
Children(k) == IF k < TaskLimit THEN <<k + 1, k * 2>> ELSE <<>>

\* what the action of an item will submit, as far as its arguments decide it
Plan(item) ==
    IF item.action = "task" /\ ~(item.args[1] \in failing /\ failearly)
    THEN Children(item.args[1])
    ELSE <<>>

(***************************************************************************)
(* The worker threads.                                                     *)
(***************************************************************************)
\* _runthread: self._queue.get() returns an item, and "Executing" is logged
Get(t) ==
    /\ thread[t] = "get"
    /\ queue # <<>>
    /\ cur' = [cur EXCEPT ![t] = Head(queue)]
    /\ queue' = Tail(queue)
    /\ executed' = Incr(executed, Head(queue))
    /\ thread' = [thread EXCEPT ![t] = "call"]
    /\ raised' = [raised EXCEPT ![t] = "none"]
    /\ todo' = [todo EXCEPT ![t] = Plan(Head(queue))]
    /\ UNCHANGED <<unfinished_tasks, next_task, max_tasks, mainpc, seeds, n, rc>>
    /\ UNCHANGED <<runvars, testvars, localvars, joinvars, extractvars>>

\* _killthread: raise _TerminateThread()
KillThread(t) ==
    /\ thread[t] = "call"
    /\ cur[t].action = "_killthread"
    /\ thread' = [thread EXCEPT ![t] = "finally"]
    /\ raised' = [raised EXCEPT ![t] = "_TerminateThread"]
    /\ UNCHANGED <<queue, unfinished_tasks, next_task, max_tasks, cur, todo,
                   mainpc, seeds, n, rc, executed>>
    /\ UNCHANGED <<runvars, testvars, localvars, joinvars, extractvars>>

\* a _runthread that leaves its loop on any exception
AfterTask_BreakOnException(exc) == IF exc = "none" THEN "get" ELSE "exited"

\* where _runthread goes after the finally clause: break on _TerminateThread,
\* the next iteration otherwise (an Exception is logged and dropped)
AfterTask(exc) == IF exc = "_TerminateThread" THEN "exited" ELSE "get"

\* _runthread: finally: self._queue.task_done(). A thread that goes on to the
\* next iteration has no item and no exception until get returns
TaskDone(t) ==
    /\ thread[t] = "finally"
    /\ unfinished_tasks' = unfinished_tasks - 1
    /\ thread' = [thread EXCEPT ![t] = AfterTask(raised[t])]
    /\ cur' = [cur EXCEPT ![t] = IF thread'[t] = "get" THEN NoTask ELSE @]
    /\ raised' = [raised EXCEPT ![t] = IF thread'[t] = "get" THEN "none" ELSE @]
    /\ todo' = [todo EXCEPT ![t] = <<>>]
    /\ UNCHANGED <<queue, next_task, max_tasks, mainpc, seeds, n, rc, executed>>
    /\ UNCHANGED <<runvars, testvars, localvars, joinvars, extractvars>>

(***************************************************************************)
(* The actions of the test's tasks.                                        *)
(***************************************************************************)
\* task(n): tq.append(task, ...)
TaskAppend(t) ==
    /\ thread[t] = "call"
    /\ cur[t].action = "task"
    /\ todo[t] # <<>>
    /\ append(TestTask(Head(todo[t])))
    /\ todo' = [todo EXCEPT ![t] = Tail(@)]
    /\ UNCHANGED <<max_tasks, thread, cur, raised, mainpc, seeds, n, rc,
                   executed>>
    /\ UNCHANGED <<runvars, testvars, localvars, joinvars, extractvars>>

\* task(n): with lock: ctr[n] += 1, and the task returns
TaskCount(t) ==
    /\ thread[t] = "call"
    /\ cur[t].action = "task"
    /\ todo[t] = <<>>
    /\ cur[t].args[1] \notin failing
    /\ ctr' = Incr(ctr, cur[t].args[1])
    /\ thread' = [thread EXCEPT ![t] = "finally"]
    /\ UNCHANGED <<queue, unfinished_tasks, next_task, max_tasks, cur, todo,
                   raised, mainpc, seeds, n, rc, executed>>
    /\ UNCHANGED <<failing, failearly, runvars, localvars, joinvars,
                   extractvars>>

\* a task whose action fails: it raises on entry, or once it has submitted
TaskRaise(t) ==
    /\ cur[t].action = "task"
    /\ cur[t].args[1] \in failing
    /\ thread[t] = "call"
    /\ todo[t] = <<>>
    /\ thread' = [thread EXCEPT ![t] = "finally"]
    /\ raised' = [raised EXCEPT ![t] = "Exception"]
    /\ UNCHANGED <<queue, unfinished_tasks, next_task, max_tasks, cur, todo,
                   mainpc, seeds, n, rc, executed>>
    /\ UNCHANGED <<runvars, testvars, localvars, joinvars, extractvars>>

\* simulate_task(c, n): the Counter a single-threaded recursion produces
RECURSIVE simulate_task(_)
simulate_task(k) ==
    LET ids == 0..(2 * TaskLimit)
        sub == IF k < TaskLimit
               THEN LET a == simulate_task(k + 1)
                        b == simulate_task(k * 2)
                    IN  [i \in ids |-> a[i] + b[i]]
               ELSE [i \in ids |-> 0]
    IN  [i \in ids |-> (IF i = k THEN 1 ELSE 0) + sub[i]]

\* test_taskqueue: the two initial tasks
TestSeeds == <<2, 3>>

(***************************************************************************)
(* Local: the locally stored mirrors.                                      *)
(***************************************************************************)
\* \s of the regular expression, as far as the model's lines hold it
Whitespace == {" ", "\t"}

\* Path(config.get('git', 'git'))
Root == <<"g", "i", "t">>

KeyUrl == <<"u", "r", "l">>

\* re.match(r'\s+url\s*=\s*', line) and line[mo.end():]
MatchUrlLine(line) ==
    The({ LET w  == LeadIn(s, Whitespace)
              w2 == LeadIn(Drop(s, w + 3), Whitespace)
              w3 == LeadIn(Drop(s, w + 3 + w2 + 1), Whitespace)
          IN  IF /\ w >= 1
                 /\ StartsWith(Drop(s, w), KeyUrl)
                 /\ At(s, w + 3 + w2 + 1) = "="
              THEN [matched |-> TRUE, url |-> Drop(s, w + 3 + w2 + 1 + w3)]
              ELSE NoMatch
          : s \in {line} })

\* Local._get_submodules, on the lines of the submodules file
RECURSIVE get_submodules(_)
get_submodules(lines) ==
    The({ IF l = <<>> THEN <<>>
          ELSE The({ IF mo.matched THEN <<mo.url>> ELSE <<>>
                     : mo \in {MatchUrlLine(Head(l))} })
                   \o get_submodules(Tail(l))
          : l \in {lines} })

\* str.split('/')
RECURSIVE Split(_)
Split(str) ==
    The({ IF x[2] = Len(x[1]) THEN <<x[1]>>
          ELSE <<Take(x[1], x[2])>> \o Split(Drop(x[1], x[2] + 1))
          : x \in {<<s, LeadNotIn(s, {"/"})>> : s \in {str}} })

\* what pathlib keeps of a segment: no empty and no '.' component
IsPart(c) == c # <<>> /\ c # <<".">>

\* self.path / repo.host / repo.path.lstrip('/'), as the components of the path
LocalPath(repo) ==
    The({ <<Root>> \o SelectSeq(<<r.host>>, IsPart)
                   \o SelectSeq(Split(LStripSlash(r.path)), IsPart)
          : r \in {repo} })

\* str.replace(old, new), old not empty
RECURSIVE Replace(_, _, _)
Replace(str, old, new) ==
    The({ IF s = <<>> THEN <<>>
          ELSE IF StartsWith(s, old)
          THEN new \o Replace(Drop(s, Len(old)), old, new)
          ELSE <<Head(s)>> \o Replace(Tail(s), old, new)
          : s \in {str} })

\* mirror_repo: map the remote URL against the aliases, the first that applies
RECURSIVE AliasRewrite(_, _)
AliasRewrite(remote, al) ==
    The({ IF x[2] = <<>> THEN x[1]
          ELSE IF StartsWith(x[1], Head(x[2])[1])
          THEN Replace(x[1], Head(x[2])[1], Head(x[2])[2])
          ELSE AliasRewrite(x[1], Tail(x[2]))
          : x \in {<<remote, al>>} })

\* mirror_repo: the remote it works on, its parts and its local path
RemoteOf(item) == AliasRewrite(item.args[1], aliases)
RepoOf(item) == parse_url(RemoteOf(item))
LocalOf(item) == LocalPath(RepoOf(item))

\* a membership test that never finds the local path
AlreadyMirrored_Never(path) == FALSE

\* local in self.already_mirrored
AlreadyMirrored(path) ==
    \E i \in 1..Len(already_mirrored) : already_mirrored[i] = path

\* mirror_repo: a submodule URL that is a local reference is joined to the remote
SubmoduleUrl(repo, url) ==
    The({ IF StartsWith(u, <<".", ".">>) \/ StartsWith(u, <<"/">>)
          THEN deparse(join_url(repo, u))
          ELSE u
          : u \in {url} })

MirrorTask(url) == [action |-> "mirror_repo", args |-> <<url>>]

\* a mirror_repo that does not record the local path
AfterIO_NoClaim == "submodules"

\* where mirror_repo goes once the clone or the update has returned
AfterIO == "claim"

\* mirror_repo: the alias loop, parse_url and local (lines 82-88), and the
\* test of already_mirrored; return if the local is in it. The variable local
\* lives as long as the call does
MirrorCheck(t) ==
    /\ thread[t] = "call"
    /\ cur[t].action = "mirror_repo"
    /\ thread' = [thread EXCEPT ![t] =
            IF AlreadyMirrored(LocalOf(cur[t])) THEN "finally" ELSE "isdir"]
    /\ local' = [local EXCEPT ![t] =
            IF thread'[t] = "finally" THEN <<>> ELSE LocalOf(cur[t])]
    /\ UNCHANGED <<queue, unfinished_tasks, next_task, max_tasks, cur, todo,
                   raised, mainpc, seeds, n, rc, executed>>
    /\ UNCHANGED <<aliases, already_mirrored, dirs, gitmodules, invocations,
                   returncode>>
    /\ UNCHANGED <<runvars, testvars, joinvars, extractvars>>

\* a mirror_repo that clones whether or not the local path is a directory
CloneOrUpdate_AlwaysClone(path) == "clone"

\* mirror_repo: if not local.is_dir(): self._clone(...) else: self._update(...)
CloneOrUpdate(path) == IF path \in dirs THEN "update" ELSE "clone"

\* mirror_repo: local.is_dir() decides, and git clone or git remote update starts
MirrorStartIO(t) ==
    /\ thread[t] = "isdir"
    /\ thread' = [thread EXCEPT ![t] = CloneOrUpdate(local[t])]
    /\ invocations' = Incr(invocations, local[t])
    /\ UNCHANGED <<queue, unfinished_tasks, next_task, max_tasks, cur, todo,
                   raised, mainpc, seeds, n, rc, executed>>
    /\ UNCHANGED <<aliases, already_mirrored, dirs, gitmodules, returncode,
                   local>>
    /\ UNCHANGED <<runvars, testvars, joinvars, extractvars>>

\* _clone / _update: subprocess.run returns, and a non-zero return code is
\* logged; a clone that succeeded has made the directory. Or mkdir or
\* subprocess.run raises (no permission, no git to execute), and mirror_repo
\* is left with the exception
MirrorEndIO(t) ==
    /\ thread[t] \in {"clone", "update"}
    /\ \E outcome \in {"zero", "nonzero", "raise"} :
        /\ dirs' = IF thread[t] = "clone" /\ outcome = "zero"
                   THEN dirs \cup {local[t]}
                   ELSE dirs
        /\ thread' = [thread EXCEPT ![t] =
                IF outcome = "raise" THEN "finally" ELSE AfterIO]
        /\ raised' = [raised EXCEPT ![t] =
                IF outcome = "raise" THEN "Exception" ELSE @]
        /\ returncode' = [returncode EXCEPT ![t] =
                IF outcome = "nonzero" THEN 1 ELSE 0]
    /\ UNCHANGED <<queue, unfinished_tasks, next_task, max_tasks, cur, todo,
                   mainpc, seeds, n, rc, executed>>
    /\ local' = [local EXCEPT ![t] =
            IF thread'[t] = "finally" THEN <<>> ELSE @]
    /\ UNCHANGED <<aliases, already_mirrored, gitmodules, invocations>>
    /\ UNCHANGED <<runvars, testvars, joinvars, extractvars>>

\* mirror_repo: self.already_mirrored.append(local)
MirrorClaim(t) ==
    /\ thread[t] = "claim"
    /\ already_mirrored' = Append(already_mirrored, local[t])
    /\ thread' = [thread EXCEPT ![t] = "submodules"]
    /\ UNCHANGED <<queue, unfinished_tasks, next_task, max_tasks, cur, todo,
                   raised, mainpc, seeds, n, rc, executed>>
    /\ UNCHANGED <<aliases, dirs, gitmodules, invocations, returncode, local>>
    /\ UNCHANGED <<runvars, testvars, joinvars, extractvars>>

\* what git show HEAD:.gitmodules can end with: the text on stdout, or a
\* non-zero return code and on stderr "'.gitmodules' does not exist",
\* "invalid object name 'HEAD'", "not a git repository" or something else
ShowResults ==
    {"show_text", "show_no_gitmodules", "show_no_head", "show_not_repository",
     "show_other"}

\* a get_submodules_file that raises when there is no submodules file
ReadRaises_OnAbsence(result) == result # "show_text"

\* get_submodules_file: the results that leave it with an exception
\* (FileNotFoundError, or CalledProcessError from check_returncode)
ReadRaises(result) == result \in {"show_not_repository", "show_other"}

\* get_submodules_file: subprocess.run of git show HEAD:.gitmodules in the
\* local path. It raises when the local path is no directory; a directory
\* holds the file, or a repository without it or without a commit, or no
\* repository, or git fails otherwise
MirrorReadSubmodules(t) ==
    /\ thread[t] = "submodules"
    /\ IF local[t] \notin dirs
       THEN /\ thread' = [thread EXCEPT ![t] = "finally"]
            /\ raised' = [raised EXCEPT ![t] = "Exception"]
            /\ returncode' = [returncode EXCEPT ![t] = 0]
            /\ local' = [local EXCEPT ![t] = <<>>]
       ELSE /\ \E result \in
                    (IF local[t] \in DOMAIN gitmodules
                     THEN {"show_text"}
                     ELSE {"show_no_gitmodules", "show_no_head"})
                        \cup {"show_not_repository", "show_other"} :
                thread' = [thread EXCEPT ![t] = result]
            /\ UNCHANGED <<raised, returncode, local>>
    /\ UNCHANGED <<queue, unfinished_tasks, next_task, max_tasks, cur, todo,
                   mainpc, seeds, n, rc, executed>>
    /\ UNCHANGED <<aliases, already_mirrored, dirs, gitmodules, invocations>>
    /\ UNCHANGED <<runvars, testvars, joinvars, extractvars>>

\* get_submodules_file looks at the result: it raises, or returns None or the
\* text. _get_submodules returns at once when there is no text, and
\* mirror_repo with it; else it yields the URLs of the text
MirrorSubmodulesFile(t) ==
    /\ thread[t] \in ShowResults
    /\ thread' = [thread EXCEPT ![t] =
            IF ~ReadRaises(thread[t]) /\ thread[t] = "show_text"
            THEN "submit" ELSE "finally"]
    /\ raised' = [raised EXCEPT ![t] =
            IF ReadRaises(thread[t]) THEN "Exception" ELSE @]
    /\ todo' = [todo EXCEPT ![t] =
            IF thread'[t] = "submit"
            THEN get_submodules(gitmodules[local[t]])
            ELSE <<>>]
    /\ returncode' = [returncode EXCEPT ![t] =
            IF thread'[t] = "finally" THEN 0 ELSE @]
    /\ local' = [local EXCEPT ![t] =
            IF thread'[t] = "finally" THEN <<>> ELSE @]
    /\ UNCHANGED <<queue, unfinished_tasks, next_task, max_tasks, cur, mainpc,
                   seeds, n, rc, executed>>
    /\ UNCHANGED <<aliases, already_mirrored, dirs, gitmodules, invocations>>
    /\ UNCHANGED <<runvars, testvars, joinvars, extractvars>>

\* mirror_repo: tq.append(self.mirror_repo, url, desc='Submodule ' + url)
MirrorSubmit(t) ==
    /\ thread[t] = "submit"
    /\ todo[t] # <<>>
    /\ append(MirrorTask(SubmoduleUrl(RepoOf(cur[t]), Head(todo[t]))))
    /\ todo' = [todo EXCEPT ![t] = Tail(@)]
    /\ UNCHANGED <<max_tasks, thread, cur, raised, mainpc, seeds, n, rc,
                   executed>>
    /\ UNCHANGED <<runvars, testvars, localvars, joinvars, extractvars>>

\* mirror_repo returns: the loop over the submodules has ended
MirrorReturn(t) ==
    /\ thread[t] = "submit"
    /\ todo[t] = <<>>
    /\ thread' = [thread EXCEPT ![t] = "finally"]
    /\ returncode' = [returncode EXCEPT ![t] = 0]
    /\ local' = [local EXCEPT ![t] = <<>>]
    /\ UNCHANGED <<queue, unfinished_tasks, next_task, max_tasks, cur, todo,
                   raised, mainpc, seeds, n, rc, executed>>
    /\ UNCHANGED <<aliases, already_mirrored, dirs, gitmodules, invocations>>
    /\ UNCHANGED <<runvars, testvars, joinvars, extractvars>>

(***************************************************************************)
(* test_taskqueue: the queue run on the test's tasks.                      *)
(***************************************************************************)
InitQueue ==
    /\ queue = <<>>
    /\ unfinished_tasks = 0
    /\ next_task = 1
    /\ max_tasks \in 1..MaxTasks
    /\ thread = [t \in Threads |-> "unstarted"]
    /\ cur = [t \in Threads |-> NoTask]
    /\ todo = [t \in Threads |-> <<>>]
    /\ raised = [t \in Threads |-> "none"]
    /\ mainpc = "seed"
    /\ n = 0
    /\ rc = -1
    /\ executed = <<>>

InitLocalOff ==
    /\ aliases = <<>>
    /\ already_mirrored = <<>>
    /\ dirs = {}
    /\ gitmodules = <<>>
    /\ invocations = <<>>
    /\ returncode = <<>>
    /\ local = <<>>

InitRunOff ==
    /\ run_number = 1
    /\ stored = {}

InitExtractOff ==
    /\ submodules_file = <<>>
    /\ urls = <<>>
    /\ xpc = "off"

InitJoinOff ==
    /\ j_remote = <<>>
    /\ j_rel = <<>>
    /\ j_repo = <<>>
    /\ j_out = <<>>
    /\ j_url = <<>>
    /\ j_back = <<>>
    /\ jpc = "off"

InitTest ==
    /\ InitQueue
    /\ seeds = [i \in 1..Len(TestSeeds) |-> TestTask(TestSeeds[i])]
    /\ ctr = <<>>
    /\ failing \in {{}, {2}}
    /\ failearly \in (IF failing = {} THEN {FALSE} ELSE BOOLEAN)
    /\ InitRunOff
    /\ InitLocalOff
    /\ InitJoinOff
    /\ InitExtractOff

NextQueue ==
    \/ Seed
    \/ RunAll
    \/ StartThread
    \/ StartJoin
    \/ QueueJoin
    \/ SendKill
    \/ StartWait
    \/ ThreadJoin
    \/ Return
    \/ \E t \in Threads : Get(t)
    \/ \E t \in Threads : KillThread(t)
    \/ \E t \in Threads : TaskDone(t)

NextTest ==
    \/ NextQueue
    \/ \E t \in Threads : TaskAppend(t)
    \/ \E t \in Threads : TaskCount(t)
    \/ \E t \in Threads : TaskRaise(t)

SpecTest == InitTest /\ [][NextTest]_vars

\* every thread that can take a step eventually takes one, and so does the caller
FairTest ==
    /\ SpecTest
    /\ WF_vars(Seed \/ RunAll \/ StartThread \/ StartJoin \/ QueueJoin
               \/ SendKill \/ StartWait \/ ThreadJoin \/ Return)
    /\ \A t \in 1..MaxTasks :
        WF_vars(t \in Threads /\ (Get(t) \/ KillThread(t) \/ TaskDone(t)
                \/ TaskAppend(t) \/ TaskCount(t) \/ TaskRaise(t)))

(***************************************************************************)
(* The remotes and the submodules files of the runs of main.               *)
(***************************************************************************)
\* ssh://git@host/org/repo.git
RepoUrl ==
    <<"s", "s", "h", ":", "/", "/", "g", "i", "t", "@", "h", "o", "s", "t",
      "/", "o", "r", "g", "/", "r", "e", "p", "o", ".", "g", "i", "t">>

\* ssh://git@host/org/libs/dep.git
DepUrl ==
    <<"s", "s", "h", ":", "/", "/", "g", "i", "t", "@", "h", "o", "s", "t",
      "/", "o", "r", "g", "/", "l", "i", "b", "s", "/", "d", "e", "p", ".",
      "g", "i", "t">>

RepoLocal == LocalPath(parse_url(RepoUrl))
DepLocal == LocalPath(parse_url(DepUrl))

\* [submodule "libs/dep"]
LineSection ==
    <<"[", "s", "u", "b", "m", "o", "d", "u", "l", "e", " ", "'", "l", "i",
      "b", "s", "/", "d", "e", "p", "'", "]">>

\* \tpath = libs/dep
LinePath ==
    <<"\t", "p", "a", "t", "h", " ", "=", " ", "l", "i", "b", "s", "/", "d",
      "e", "p">>

\* \turl = ../libs/dep.git
LineDep ==
    <<"\t", "u", "r", "l", " ", "=", " ", ".", ".", "/", "l", "i", "b", "s",
      "/", "d", "e", "p", ".", "g", "i", "t">>

\* \turl = ../../repo.git: the superproject, from the submodule
LineAncestor ==
    <<"\t", "u", "r", "l", " ", "=", " ", ".", ".", "/", ".", ".", "/", "r",
      "e", "p", "o", ".", "g", "i", "t">>

\* \turl=../dep.git: the submodule itself
LineSelf ==
    <<"\t", "u", "r", "l", "=", ".", ".", "/", "d", "e", "p", ".", "g", "i",
      "t">>

\* a repository with one submodule, which has none
TreeWorld == (RepoLocal :> <<LineSection, LinePath, LineDep>>)

\* a submodule that names its superproject and itself
CycleWorld ==
    (RepoLocal :> <<LineSection, LinePath, LineDep>>)
        @@ (DepLocal :> <<LineAncestor, LineSelf>>)

\* the runs: config_data['gather']['remotes'], the submodules files, and the
\* mirrors that exist before the run
MirrorRuns ==
    { [remotes |-> <<RepoUrl>>, world |-> TreeWorld, dirs |-> {}],
      [remotes |-> <<RepoUrl, RepoUrl>>, world |-> TreeWorld, dirs |-> {}],
      [remotes |-> <<RepoUrl>>, world |-> CycleWorld, dirs |-> {RepoLocal}],
      [remotes |-> <<DepUrl, RepoUrl>>, world |-> CycleWorld, dirs |-> {RepoLocal, DepLocal}] }

InitMirror ==
    /\ InitQueue
    /\ \E run \in MirrorRuns :
        /\ seeds = [i \in 1..Len(run.remotes) |-> MirrorTask(run.remotes[i])]
        /\ gitmodules = run.world
        /\ dirs = run.dirs
    /\ aliases = <<>>
    /\ already_mirrored = <<>>
    /\ invocations = <<>>
    /\ returncode = [t \in Threads |-> 0]
    /\ local = [t \in Threads |-> <<>>]
    /\ ctr = <<>>
    /\ failing = {}
    /\ failearly = FALSE
    /\ run_number = 1
    /\ stored = dirs
    /\ InitJoinOff
    /\ InitExtractOff

NextMirror ==
    \/ NextQueue
    \/ \E t \in Threads : MirrorCheck(t)
    \/ \E t \in Threads : MirrorStartIO(t)
    \/ \E t \in Threads : MirrorEndIO(t)
    \/ \E t \in Threads : MirrorClaim(t)
    \/ \E t \in Threads : MirrorReadSubmodules(t)
    \/ \E t \in Threads : MirrorSubmodulesFile(t)
    \/ \E t \in Threads : MirrorSubmit(t)
    \/ \E t \in Threads : MirrorReturn(t)

SpecMirror == InitMirror /\ [][NextMirror]_vars

\* as long as main or a thread can take a step, one of them takes a step: the
\* least that the scheduling of threads gives (it follows from every thread
\* that can run being run eventually)
FairMirror == SpecMirror /\ WF_vars(NextMirror)

(***************************************************************************)
(* Properties of the task queue.                                           *)
(***************************************************************************)
TaskIds == 0..(2 * TaskLimit)

KillTask == [action |-> "_killthread", args |-> <<>>]

IsRealTask(item) == item.action \notin {"_killthread", "none"}

\* a thread is inside the action of a real task, or has not yet counted it done
Executing(t) == thread[t] \in {"call", "finally"} /\ IsRealTask(cur[t])

\* what test_taskqueue compares ctr with
test_counter ==
    LET a == simulate_task(TestSeeds[1])
        b == simulate_task(TestSeeds[2])
    IN  [k \in TaskIds |-> a[k] + b[k]]

\* C1: drain completeness. When runall has returned on the test's task graph
\* (no task fails), the Counter of the executed tasks equals the Counter of the
\* single-threaded recursive simulation, for every worker count: every seeded
\* and every transitively submitted task was executed exactly once.
C1_DrainCompleteness ==
    (mainpc = "returned" /\ failing = {}) =>
        \A k \in TaskIds :
            /\ Count(ctr, k) = test_counter[k]
            /\ Count(executed, TestTask(k)) = test_counter[k]

C1_Witness ==
    /\ mainpc = "returned"
    /\ failing = {}
    /\ max_tasks = 2
    /\ Count(ctr, 3) = 2
    /\ \E t \in Threads : cur[t] = KillTask

\* C2: quiescence before stop. Once a termination notice is being or has been
\* submitted, no real task is pending and none is executing, so no task is
\* queued behind a termination notice and no running task can still submit one.
C2_QuiescenceBeforeStop ==
    (mainpc \in {"kill", "wait", "returned"} \/ \E i \in 1..Len(queue) : queue[i] = KillTask) =>
        /\ \A i \in 1..Len(queue) : queue[i] = KillTask
        /\ \A t \in Threads : ~Executing(t)
        /\ \A t \in Threads : todo[t] = <<>>

C2_Witness ==
    /\ mainpc = "kill"
    /\ n = 1
    /\ max_tasks = 2
    /\ queue = <<KillTask>>
    /\ Count(ctr, 4) = 1

\* C3: termination. Under fair scheduling of the caller and of the threads,
\* runall eventually returns, and when it has returned every thread has left
\* its loop.
C3_Termination ==
    /\ <>(mainpc = "returned")
    /\ [](mainpc = "returned" => \A t \in Threads : thread[t] = "exited")

C3_Witness ==
    /\ mainpc = "returned"
    /\ max_tasks = 2
    /\ \A t \in Threads : thread[t] = "exited"
    /\ Count(executed, TestTask(2)) = 1

\* the Counter of the executions when the tasks in failing raise: a task that
\* raises on entry submits nothing
RECURSIVE Runs(_)
Runs(k) ==
    LET sub == IF k < TaskLimit /\ ~(k \in failing /\ failearly)
               THEN LET a == Runs(k + 1)
                        b == Runs(k * 2)
                    IN  [i \in TaskIds |-> a[i] + b[i]]
               ELSE [i \in TaskIds |-> 0]
    IN  [i \in TaskIds |-> (IF i = k THEN 1 ELSE 0) + sub[i]]

ExpectedRuns ==
    LET a == Runs(TestSeeds[1])
        b == Runs(TestSeeds[2])
    IN  [k \in TaskIds |-> a[k] + b[k]]

\* C4: failure isolation. When a task's action raises, runall still returns and
\* main returns 0; the failed task is counted as done and is not executed
\* again, every other task is executed and completes, and no thread leaves its
\* loop before the termination notices are sent.
C4_FailureIsolation ==
    /\ (failing # {}) ~> (mainpc = "returned" /\ rc = 0)
    /\ [](\A t \in Threads :
            thread[t] = "exited" => mainpc \in {"kill", "wait", "returned"})
    /\ []((mainpc = "returned" /\ failing # {}) =>
            /\ unfinished_tasks = 0
            /\ \A k \in TaskIds :
                /\ Count(executed, TestTask(k)) = ExpectedRuns[k]
                /\ Count(ctr, k) = IF k \in failing THEN 0 ELSE ExpectedRuns[k])

C4_Witness ==
    /\ mainpc = "returned"
    /\ rc = 0
    /\ failing = {2}
    /\ ~failearly
    /\ Count(executed, TestTask(2)) = 1
    /\ Count(ctr, 2) = 0
    /\ Count(ctr, 3) = 2
    /\ Count(ctr, 4) = 1

(***************************************************************************)
(* Properties of the mirroring.                                            *)
(***************************************************************************)
\* the thread is inside git clone or git remote update
InIO(t) == thread[t] \in {"clone", "update"}

\* C5: deduplication under concurrency. Two mirror tasks for the same local
\* path, submitted before either runs: one clone or update invocation happens
\* for the path, and no two threads are inside clone or update for the same
\* path at the same time.
C5_DedupUnderConcurrency ==
    /\ \A l \in DOMAIN invocations : invocations[l] <= 1
    /\ \A t1, t2 \in Threads :
        (t1 # t2 /\ InIO(t1) /\ InIO(t2)) => LocalOf(cur[t1]) # LocalOf(cur[t2])

\* C6: claim before I/O. While a clone or an update of a local path runs, the
\* path is in already_mirrored.
C6_ClaimBeforeIO ==
    \A t \in Threads : InIO(t) => AlreadyMirrored(LocalOf(cur[t]))

\* the lines of the submodules files of the paths in S
RECURSIVE FileLines(_, _)
FileLines(world, S) ==
    IF S = {} THEN 0
    ELSE LET l == CHOOSE x \in S : TRUE
         IN  Len(world[l]) + FileLines(world, S \ {l})

\* the most remotes a run is seeded with
MaxRemotes ==
    CHOOSE m \in {Len(run.remotes) : run \in MirrorRuns} :
        \A run \in MirrorRuns : Len(run.remotes) <= m

\* C7: cycle termination. With submodules that name their superproject or
\* themselves, runall returns under fair scheduling, and the tasks are not
\* submitted again for ever: beyond the seeds and the termination notices, no
\* more tasks are ever submitted than one per thread and line of a submodules
\* file.
C7_CycleTermination ==
    /\ <>(mainpc = "returned")
    /\ [](next_task - 1 <= MaxRemotes + max_tasks
                            + max_tasks * FileLines(gitmodules, DOMAIN gitmodules))

C7_Witness ==
    /\ mainpc = "returned"
    /\ max_tasks = 2
    /\ gitmodules = CycleWorld
    /\ Count(executed, MirrorTask(RepoUrl)) >= 2
    /\ Count(executed, MirrorTask(DepUrl)) >= 2
    /\ Count(invocations, RepoLocal) = 1
    /\ Count(invocations, DepLocal) = 1

(***************************************************************************)
(* The address algebra: parse_url, join_url and deparse on their own.      *)
(***************************************************************************)
\* ssh://h/a/b/c
UrlABC ==
    <<"s", "s", "h", ":", "/", "/", "h", "/", "a", "/", "b", "/", "c">>

\* u@h:/a/b/c
ScpABC ==
    <<"u", "@", "h", ":", "/", "a", "/", "b", "/", "c">>

\* h:a/b/c
ScpRelABC ==
    <<"h", ":", "a", "/", "b", "/", "c">>

\* /a/b/c
FileABC ==
    <<"/", "a", "/", "b", "/", "c">>

\* https://h:80/a
UrlPortA ==
    <<"h", "t", "t", "p", "s", ":", "/", "/", "h", ":", "8", "0", "/", "a">>

\* ssh://h/a/b/
UrlTrailing ==
    <<"s", "s", "h", ":", "/", "/", "h", "/", "a", "/", "b", "/">>

JoinRemotes ==
    {RepoUrl, DepUrl, UrlABC, ScpABC, ScpRelABC, FileABC, UrlPortA, UrlTrailing}

\* what follows the leading "../" segments of a relative URL
Remainders ==
    { <<>>, <<"x">>, <<".", ".">>, <<".", ".", "x">>, <<"x", "/", ".", ".", "/", "y">>,
      <<"l", "i", "b", "s", "/", "d", "e", "p", ".", "g", "i", "t">> }

RECURSIVE Ups(_)
Ups(k) == IF k = 0 THEN <<>> ELSE DotDotSlash \o Ups(k - 1)

\* a relative URL: an optional leading '/', k times "../", and the remainder
Relative(rooted, k, r) == (IF rooted THEN <<"/">> ELSE <<>>) \o Ups(k) \o r

JoinRelatives ==
    { Relative(rooted, k, r) : rooted \in BOOLEAN, k \in 0..MaxUp, r \in Remainders }

InitJoin ==
    /\ j_remote \in JoinRemotes
    /\ j_rel \in JoinRelatives
    /\ j_repo = <<>>
    /\ j_out = <<>>
    /\ j_url = <<>>
    /\ j_back = <<>>
    /\ jpc = "parse"
    /\ queue = <<>>
    /\ unfinished_tasks = 0
    /\ next_task = 1
    /\ max_tasks = 0
    /\ thread = <<>>
    /\ cur = <<>>
    /\ todo = <<>>
    /\ raised = <<>>
    /\ mainpc = "off"
    /\ seeds = <<>>
    /\ n = 0
    /\ rc = -1
    /\ executed = <<>>
    /\ ctr = <<>>
    /\ failing = {}
    /\ failearly = FALSE
    /\ InitRunOff
    /\ InitLocalOff
    /\ InitExtractOff

\* repo = RemoteRepo.parse_url(remote)
JoinParse ==
    /\ jpc = "parse"
    /\ j_repo' = parse_url(j_remote)
    /\ jpc' = "join"
    /\ UNCHANGED <<j_remote, j_rel, j_out, j_url, j_back>>
    /\ UNCHANGED <<tqvars, runvars, testvars, localvars, extractvars>>

\* repo.join_url(url)
JoinJoin ==
    /\ jpc = "join"
    /\ j_out' = join_url(j_repo, j_rel)
    /\ jpc' = "deparse"
    /\ UNCHANGED <<j_remote, j_rel, j_repo, j_url, j_back>>
    /\ UNCHANGED <<tqvars, runvars, testvars, localvars, extractvars>>

\* .deparse(): the URL the submodule's mirror task is given
JoinDeparse ==
    /\ jpc = "deparse"
    /\ j_url' = deparse(j_out)
    /\ jpc' = "done"
    /\ UNCHANGED <<j_remote, j_rel, j_repo, j_out, j_back>>
    /\ UNCHANGED <<tqvars, runvars, testvars, localvars, extractvars>>

NextJoin == JoinParse \/ JoinJoin \/ JoinDeparse

SpecJoin == InitJoin /\ [][NextJoin]_vars

\* /a/b/c
PathABC == <<"/", "a", "/", "b", "/", "c">>

\* C8, as claimed: on the path /a/b/c, join("../x") yields /a/x and
\* join("../../x") yields /x.
C8_Original ==
    (jpc = "done" /\ j_repo.path = PathABC) =>
        /\ j_rel = Relative(FALSE, 1, <<"x">>) => j_out.path = <<"/", "a", "/", "x">>
        /\ j_rel = Relative(FALSE, 2, <<"x">>) => j_out.path = <<"/", "x">>

\* C8, amended: on the path /a/b/c, join("../x") yields /a/b/x and
\* join("../../x") yields /a/x: each "../" removes one trailing component.
C8_RelativeJoin ==
    (jpc = "done" /\ j_repo.path = PathABC) =>
        /\ j_rel = Relative(FALSE, 1, <<"x">>) =>
                j_out.path = <<"/", "a", "/", "b", "/", "x">>
        /\ j_rel = Relative(FALSE, 2, <<"x">>) => j_out.path = <<"/", "a", "/", "x">>

C8_Witness ==
    /\ jpc = "done"
    /\ j_repo.path = PathABC
    /\ j_rel = Relative(FALSE, 2, <<"x">>)
    /\ j_out.path = <<"/", "a", "/", "x">>

\* C9: rooted join. For a relative string that begins with '/', the joined path
\* is that string, whatever the current path.
C9_RootedJoin ==
    (jpc = "done" /\ StartsWith(j_rel, <<"/">>)) =>
        /\ j_out.path = j_rel
        /\ \A other \in JoinRemotes :
                join_url(parse_url(other), j_rel).path = j_out.path

\* the components of a path: its non-empty '/'-separated segments
Components(path) == SelectSeq(Split(path), LAMBDA c : c # <<>>)

\* C10: submodule resolution. k leading "../" segments followed by r remove the
\* last k components of the path (all of them when it has fewer) and append
\* r; scheme, user, host, port and variant are kept. The submodule
\* ../libs/dep.git of ssh://git@host/org/repo.git is given to its mirror task
\* as a URL with host `host` and path /org/libs/dep.git.
C10_SubmoduleResolution ==
    jpc = "done" =>
        /\ \A k \in 0..MaxUp, r \in Remainders :
            j_rel = Relative(FALSE, k, r) =>
                /\ Components(j_out.path) =
                        Take(Components(j_repo.path), Len(Components(j_repo.path)) - k)
                            \o Components(r)
                /\ [j_out EXCEPT !.path = j_repo.path] = j_repo
        /\ (j_remote = RepoUrl /\ j_rel = Relative(FALSE, 1, Drop(DepUrl, 19))) =>
                /\ j_url = SubmoduleUrl(j_repo, j_rel)
                /\ parse_url(j_url).host = <<"h", "o", "s", "t">>
                /\ parse_url(j_url).path = Drop(DepUrl, 14)
                /\ LocalPath(parse_url(j_url)) = DepLocal

(***************************************************************************)
(* parse_url and deparse on strings put together from well-formed and      *)
(* ill-formed parts.                                                       *)
(***************************************************************************)
SchemeParts ==
    { <<>>,
      <<"s", "s", "h", ":", "/", "/">>,
      <<"f", "i", "l", "e", ":", "/", "/">>,
      <<"s", "_", "1", ":", "/", "/">>,
      <<"s", ":", "/">>,
      <<":", "/", "/">> }

UserParts ==
    { <<>>,
      <<"u", "@">>,
      <<"@">>,
      <<"u", ":", "p", "@">> }

HostParts ==
    { <<>>,
      <<"h">>,
      <<"h", ".", "x">>,
      <<"a", "?", "b">>,
      <<"a", "/", "b">> }

PortParts ==
    { <<>>,
      <<":", "8", "0">>,
      <<":">>,
      <<":", "8", "a">> }

PathParts ==
    { <<>>,
      <<"/">>,
      <<"/", "a", "/", "b">>,
      <<"a", "/", "b">>,
      <<":", "c">>,
      <<"/", "a", "\n", "b">> }

ParseInputs ==
    { sc \o us \o ho \o po \o pa :
        sc \in SchemeParts, us \in UserParts, ho \in HostParts,
        po \in PortParts, pa \in PathParts }

InitParse ==
    /\ j_remote \in ParseInputs
    /\ j_rel = <<>>
    /\ j_repo = <<>>
    /\ j_out = <<>>
    /\ j_url = <<>>
    /\ j_back = <<>>
    /\ jpc = "parse"
    /\ queue = <<>>
    /\ unfinished_tasks = 0
    /\ next_task = 1
    /\ max_tasks = 0
    /\ thread = <<>>
    /\ cur = <<>>
    /\ todo = <<>>
    /\ raised = <<>>
    /\ mainpc = "off"
    /\ seeds = <<>>
    /\ n = 0
    /\ rc = -1
    /\ executed = <<>>
    /\ ctr = <<>>
    /\ failing = {}
    /\ failearly = FALSE
    /\ InitRunOff
    /\ InitLocalOff
    /\ InitExtractOff

\* repo = RemoteRepo.parse_url(remote)
Parse ==
    /\ jpc = "parse"
    /\ j_repo' = parse_url(j_remote)
    /\ jpc' = "deparse"
    /\ UNCHANGED <<j_remote, j_rel, j_out, j_url, j_back>>
    /\ UNCHANGED <<tqvars, runvars, testvars, localvars, extractvars>>

\* repo.deparse()
Deparse ==
    /\ jpc = "deparse"
    /\ j_url' = deparse(j_repo)
    /\ jpc' = "reparse"
    /\ UNCHANGED <<j_remote, j_rel, j_repo, j_out, j_back>>
    /\ UNCHANGED <<tqvars, runvars, testvars, localvars, extractvars>>

\* RemoteRepo.parse_url of the deparsed string, as the submodule's task does
Reparse ==
    /\ jpc = "reparse"
    /\ j_back' = parse_url(j_url)
    /\ jpc' = "back"
    /\ UNCHANGED <<j_remote, j_rel, j_repo, j_out, j_url>>
    /\ UNCHANGED <<tqvars, runvars, testvars, localvars, extractvars>>

NextParse == Parse \/ Deparse \/ Reparse

SpecParse == InitParse /\ [][NextParse]_vars

\* the string has no line break
SingleLine(x) == \A i \in 1..Len(x) : x[i] \notin Newline

\* C11: address round trip. For a single-line string that parse_url makes a
\* Url or an Scp address, the deparsed address parses back to the same
\* variant, scheme, user, host, port and path.
C11_RoundTrip ==
    (jpc = "back" /\ SingleLine(j_remote) /\ j_repo.variant \in {"Url", "Scp"}) =>
        j_back = j_repo

C11_Witness ==
    /\ jpc = "back"
    /\ j_repo.variant = "Url"
    /\ j_repo.user = <<"u", "@">>
    /\ j_repo.port = <<":", "8", "0">>
    /\ j_repo.path = <<"/", "a", "/", "b">>
    /\ j_back = j_repo

\* the characters of x from position a to position b are all in set
AllIn(x, a, b, set) == \A i \in a..b : i <= Len(x) /\ x[i] \in set

\* the characters of x from position a to position b are all outside set
NoneIn(x, a, b, set) == \A i \in a..b : i <= Len(x) /\ x[i] \notin set

\* x begins scheme://[user@]host[:port]/ : the scheme is word characters, user
\* and host are not empty and have none of / ? # @ :, the port is digits
IsUrlForm(x) ==
    \E a \in 1..Len(x) :
        /\ AllIn(x, 1, a, WordChars)
        /\ Take(Drop(x, a), 3) = <<":", "/", "/">>
        /\ \E u \in 0..Len(x) :
            /\ u > 0 => (NoneIn(x, a + 4, a + 3 + u, Special)
                            /\ At(x, a + 4 + u) = "@")
            /\ \E h \in 1..Len(x) :
                LET p3 == (IF u > 0 THEN a + 4 + u ELSE a + 3) + h
                IN  /\ NoneIn(x, p3 - h + 1, p3, Special)
                    /\ \E d \in 0..Len(x) :
                        /\ d > 0 => (At(x, p3 + 1) = ":"
                                        /\ AllIn(x, p3 + 2, p3 + 1 + d, Digits))
                        /\ At(x, (IF d > 0 THEN p3 + 1 + d ELSE p3) + 1) = "/"

\* x begins [user@]host: : the user is not empty, and user and host have none
\* of / ? # @ :
IsScpForm(x) ==
    \E u \in 0..Len(x), h \in 0..Len(x) :
        LET p2 == IF u > 0 THEN u + 1 ELSE 0
            p3 == p2 + h
        IN  /\ u > 0 => (NoneIn(x, 1, u, Special) /\ At(x, u + 1) = "@")
            /\ NoneIn(x, p2 + 1, p3, Special)
            /\ At(x, p3 + 1) = ":"

\* x begins [user@]host: : the user is not empty and the host has no '/'
IsScpFormNoSlash(x) ==
    \E i \in 1..Len(x), j \in 1..Len(x) :
        /\ j <= i
        /\ x[i] = ":"
        /\ j = 1 \/ (j >= 3 /\ x[j - 1] = "@")
        /\ NoneIn(x, j, i - 1, {"/"})

\* parse_url has returned one of the three variants
IsAddress(repo) ==
    /\ DOMAIN repo = {"variant", "scheme", "user", "host", "port", "path"}
    /\ repo.variant \in {"Url", "Scp", "File"}

\* C12, as claimed: parse_url returns an address for every string: the Url
\* variant if the string has the URL form, otherwise the Scp variant if it has
\* the form [user@]host:path with no '/' in the host, otherwise the File
\* variant.
C12_Original ==
    jpc # "parse" =>
        /\ IsAddress(j_repo)
        /\ j_repo.variant =
                IF IsUrlForm(j_remote) THEN "Url"
                ELSE IF IsScpFormNoSlash(j_remote) THEN "Scp"
                ELSE "File"

\* C12, amended: parse_url returns an address for every string: the Url variant
\* if the string has the URL form, otherwise the Scp variant if it has the form
\* [user@]host:path with none of / ? # @ : in user and host, otherwise the File
\* variant.
C12_ParsePrecedence ==
    jpc # "parse" =>
        /\ IsAddress(j_repo)
        /\ j_repo.variant =
                IF IsUrlForm(j_remote) THEN "Url"
                ELSE IF IsScpForm(j_remote) THEN "Scp"
                ELSE "File"

C12_Witness ==
    /\ jpc = "back"
    /\ j_remote = <<"a", "?", "b", ":", "c">>
    /\ j_repo.variant = "File"
    /\ j_repo.path = j_remote

(***************************************************************************)
(* _get_submodules on submodules files of up to MaxLines lines.            *)
(***************************************************************************)
MaxLines == 3

\*   url = a
LineUrlA ==
    <<" ", " ", "u", "r", "l", " ", "=", " ", "a">>

\* path = foo
LinePathFoo ==
    <<"p", "a", "t", "h", " ", "=", " ", "f", "o", "o">>

\* <tab>url=b
LineUrlB ==
    <<"\t", "u", "r", "l", "=", "b">>

\* url = c
LineUrlBare ==
    <<"u", "r", "l", " ", "=", " ", "c">>

\* <tab>pushurl = d
LinePushUrl ==
    <<"\t", "p", "u", "s", "h", "u", "r", "l", " ", "=", " ", "d">>

\*  url =
LineUrlNoValue ==
    <<" ", "u", "r", "l", " ", "=">>

\* <tab>urlx = e
LineUrlx ==
    <<"\t", "u", "r", "l", "x", " ", "=", " ", "e">>

DescriptorLines ==
    {LineSection, LineUrlA, LinePathFoo, LineUrlB, LineUrlBare, LinePushUrl,
     LineUrlNoValue, LineUrlx}

\* the sequences of at most k elements of S
SeqUpTo(S, k) == UNION { [1..m -> S] : m \in 0..k }

InitExtract ==
    /\ submodules_file \in SeqUpTo(DescriptorLines, MaxLines)
    /\ urls = <<>>
    /\ xpc = "read"
    /\ queue = <<>>
    /\ unfinished_tasks = 0
    /\ next_task = 1
    /\ max_tasks = 0
    /\ thread = <<>>
    /\ cur = <<>>
    /\ todo = <<>>
    /\ raised = <<>>
    /\ mainpc = "off"
    /\ seeds = <<>>
    /\ n = 0
    /\ rc = -1
    /\ executed = <<>>
    /\ ctr = <<>>
    /\ failing = {}
    /\ failearly = FALSE
    /\ InitRunOff
    /\ InitLocalOff
    /\ InitJoinOff

\* list(self._get_submodules(local))
Extract ==
    /\ xpc = "read"
    /\ urls' = get_submodules(submodules_file)
    /\ xpc' = "done"
    /\ UNCHANGED submodules_file
    /\ UNCHANGED <<tqvars, runvars, testvars, localvars, joinvars>>

NextExtract == Extract

SpecExtract == InitExtract /\ [][NextExtract]_vars

\* the line is a whitespace, `url`, b whitespace, `=`, c whitespace and a value
\* that begins with no whitespace
IsUrlEntry(line, a, b, c) ==
    /\ a + 3 + b + 1 + c <= Len(line)
    /\ AllIn(line, 1, a, Whitespace)
    /\ Take(Drop(line, a), 3) = KeyUrl
    /\ AllIn(line, a + 4, a + 3 + b, Whitespace)
    /\ At(line, a + 3 + b + 1) = "="
    /\ AllIn(line, a + 3 + b + 2, a + 3 + b + 1 + c, Whitespace)
    /\ At(line, a + 3 + b + 1 + c + 1) \notin Whitespace

\* the values of the url entries among the lines, in their order; an entry has
\* at least minIndent leading whitespace
RECURSIVE UrlValues(_, _)
UrlValues(lines, minIndent) ==
    IF lines = <<>> THEN <<>>
    ELSE LET line == Head(lines)
             hits == { Drop(line, a + 3 + b + 1 + c) :
                         <<a, b, c>> \in
                            { t \in (minIndent..Len(line)) \X (0..Len(line))
                                        \X (0..Len(line)) :
                                IsUrlEntry(line, t[1], t[2], t[3]) } }
         IN  (IF hits = {} THEN <<>> ELSE <<The(hits)>>)
                \o UrlValues(Tail(lines), minIndent)

\* C13: submodule extraction. The extracted list is the values of the lines of
\* the form optional whitespace, `url`, optional whitespace, `=`, optional
\* whitespace, value, in file order and with duplicates; other lines give
\* nothing. The lines `  url = a`, `path = foo`, `<tab>url=b` give [a, b].
C13_SubmoduleExtraction ==
    xpc = "done" =>
        /\ urls = UrlValues(submodules_file, 0)
        /\ submodules_file = <<LineUrlA, LinePathFoo, LineUrlB>> =>
                urls = << <<"a">>, <<"b">> >>

(***************************************************************************)
(* The alias loop of mirror_repo on configurations of up to MaxAliases      *)
(* aliases.                                                                *)
(***************************************************************************)
MaxAliases == 2

\* config['aliases']: pairs of original and replacement
AliasPairs ==
    { <<<<"g", "h", ":">>, <<"s", "s", "h", ":", "/", "/", "g", "i", "t", "@", "h", "o", "s", "t", "/">>>>,
      <<<<"g", "h">>, <<"h", "u", "b">>>>,
      <<<<"x", ":">>, <<"g", "h", ":">>>>,
      <<<<"s", "s", "h", ":", "/", "/">>, <<"x", ":">>>> }

\* a dict has each key once
AliasConfigs ==
    { al \in SeqUpTo(AliasPairs, MaxAliases) :
        \A i, k \in 1..Len(al) : i # k => al[i][1] # al[k][1] }

AliasRemotes ==
    { <<"g", "h", ":", "o", "r", "g", "/", "r", "e", "p", "o", ".", "g", "i", "t">>,
      <<"g", "h", ":", "o", "r", "g", "/", "g", "h", ":", "r", "e", "p", "o">>,
      <<"x", ":", "g", "h", ":", "a">>,
      <<"s", "s", "h", ":", "/", "/", "g", "i", "t", "@", "h", "o", "s", "t", "/", "o", "r", "g", "/", "r", "e", "p", "o", ".", "g", "i", "t">>,
      <<"g", "h", "o", "s", "t", ":", "a", "/", "b">>,
      <<"a", "/", "g", "h", ":", "b">> }

InitAlias ==
    /\ aliases \in AliasConfigs
    /\ j_remote \in AliasRemotes
    /\ j_rel = <<>>
    /\ j_repo = <<>>
    /\ j_out = <<>>
    /\ j_url = <<>>
    /\ j_back = <<>>
    /\ jpc = "alias"
    /\ queue = <<>>
    /\ unfinished_tasks = 0
    /\ next_task = 1
    /\ max_tasks = 0
    /\ thread = <<>>
    /\ cur = <<>>
    /\ todo = <<>>
    /\ raised = <<>>
    /\ mainpc = "off"
    /\ seeds = <<>>
    /\ n = 0
    /\ rc = -1
    /\ executed = <<>>
    /\ ctr = <<>>
    /\ failing = {}
    /\ failearly = FALSE
    /\ InitRunOff
    /\ already_mirrored = <<>>
    /\ dirs = {}
    /\ gitmodules = <<>>
    /\ invocations = <<>>
    /\ returncode = <<>>
    /\ local = <<>>
    /\ InitExtractOff

\* mirror_repo: the alias loop
Rewrite ==
    /\ jpc = "alias"
    /\ j_url' = AliasRewrite(j_remote, aliases)
    /\ jpc' = "rewritten"
    /\ UNCHANGED <<j_remote, j_rel, j_repo, j_out, j_back>>
    /\ UNCHANGED <<tqvars, runvars, testvars, localvars, extractvars>>

\* mirror_repo: repo = RemoteRepo.parse_url(remote), of the rewritten remote
ParseRewritten ==
    /\ jpc = "rewritten"
    /\ j_repo' = parse_url(j_url)
    /\ jpc' = "parsed"
    /\ UNCHANGED <<j_remote, j_rel, j_out, j_url, j_back>>
    /\ UNCHANGED <<tqvars, runvars, testvars, localvars, extractvars>>

NextAlias == Rewrite \/ ParseRewritten

SpecAlias == InitAlias /\ [][NextAlias]_vars

\* the positions of the aliases whose key is a prefix of the address
Applicable(remote, al) == { i \in 1..Len(al) : StartsWith(remote, al[i][1]) }

\* C14: alias rewrite. The address is rewritten with the first alias whose key
\* is its prefix: the alias value and the rest of the address after the prefix,
\* later occurrences of the key untouched and no second alias applied; an
\* address that no key matches is unchanged.
C14_AliasRewrite ==
    jpc # "alias" =>
        LET hits == Applicable(j_remote, aliases)
        IN  IF hits = {} THEN j_url = j_remote
            ELSE LET first == CHOOSE i \in hits : \A k \in hits : i <= k
                 IN  j_url = aliases[first][2]
                                \o Drop(j_remote, Len(aliases[first][1]))

(***************************************************************************)
(* Failures of a mirror task.                                              *)
(***************************************************************************)
\* a mirror task that has ended with an exception
EndedInFailure(t) ==
    /\ thread[t] = "finally"
    /\ cur[t].action = "mirror_repo"
    /\ raised[t] = "Exception"

\* C15: whenever a mirror task ends in failure, at the clone or update
\* invocation or at the read of the submodules file, its local target is in
\* already_mirrored afterwards. (Violated: when the invocation itself raises,
\* mirror_repo is left before already_mirrored.append(local).)
C15_FailedTargetsClaimed ==
    \A t \in Threads :
        EndedInFailure(t) => AlreadyMirrored(LocalOf(cur[t]))

(***************************************************************************)
(* Github: the repositories of an organization, asked for page by page and *)
(* submitted for mirroring. main appends gh.mirror_org_repos to the queue. *)
(***************************************************************************)
\* git@host:org/repo.git and git@host:org/old.git, as repo['ssh_url']
GhRepoUrl ==
    <<"g", "i", "t", "@", "h", "o", "s", "t", ":", "o", "r", "g", "/", "r",
      "e", "p", "o", ".", "g", "i", "t">>

GhOldUrl ==
    <<"g", "i", "t", "@", "h", "o", "s", "t", ":", "o", "r", "g", "/", "o",
      "l", "d", ".", "g", "i", "t">>

\* one entry of a page of the response
GhRepo(name, url) == [kind |-> "repo", name |-> name, ssh_url |-> url]

\* _get_org_repos: self.session.get(url) for the next page
GhRequest == [kind |-> "request", name |-> "", ssh_url |-> <<>>]

\* str.casefold, on the names of the model
casefold(name) ==
    CASE name = "Old" -> "old"
      [] name = "Repo" -> "repo"
      [] OTHER -> name

\* _get_org_repos: what the generator goes through, a request before the
\* entries of each page (the first URL, then the rel="next" links)
RECURSIVE Listing(_)
Listing(pages) ==
    IF pages = <<>> THEN <<>>
    ELSE <<GhRequest>> \o Head(pages) \o Listing(Tail(pages))

\* the organizations of the model: the pages Github answers with, and the
\* configuration's ignore list (casefolded in __init__) and dry-run
GithubOrgs ==
    { [pages |-> p, ignore |-> {casefold(i) : i \in ig}, dry_run |-> dr] :
        p \in { << <<GhRepo("Repo", GhRepoUrl)>> >>,
                << <<GhRepo("Old", GhOldUrl)>>, <<GhRepo("Repo", GhRepoUrl)>> >> },
        ig \in {{}, {"OLD"}, {"old"}},
        dr \in BOOLEAN }

\* main: tq.append(gh.mirror_org_repos)
GithubTask(org) == [action |-> "mirror_org_repos", args |-> <<org>>]

\* mirror_org_repos is called: the loop over self._get_org_repos(url) begins
GithubStart(t) ==
    /\ thread[t] = "call"
    /\ cur[t].action = "mirror_org_repos"
    /\ thread' = [thread EXCEPT ![t] = "github"]
    /\ todo' = [todo EXCEPT ![t] = Listing(cur[t].args[1].pages)]
    /\ UNCHANGED <<queue, unfinished_tasks, next_task, max_tasks, cur, raised,
                   mainpc, seeds, n, rc, executed>>
    /\ UNCHANGED <<runvars, testvars, localvars, joinvars, extractvars>>

\* _get_org_repos: session.get and response.raise_for_status(): the page is
\* there, or the request fails (no connection, an error status) and the
\* exception leaves mirror_org_repos
GithubRequest(t) ==
    /\ thread[t] = "github"
    /\ todo[t] # <<>>
    /\ Head(todo[t]).kind = "request"
    /\ \E outcome \in {"ok", "raise"} :
        /\ thread' = [thread EXCEPT ![t] =
                IF outcome = "raise" THEN "finally" ELSE @]
        /\ raised' = [raised EXCEPT ![t] =
                IF outcome = "raise" THEN "Exception" ELSE @]
        /\ todo' = [todo EXCEPT ![t] =
                IF outcome = "raise" THEN <<>> ELSE Tail(@)]
    /\ UNCHANGED <<queue, unfinished_tasks, next_task, max_tasks, cur, mainpc,
                   seeds, n, rc, executed>>
    /\ UNCHANGED <<runvars, testvars, localvars, joinvars, extractvars>>

\* mirror_org_repos: one repo of the page: ignored, or only logged in a dry
\* run, or tq.append(local.mirror_repo, ssh)
GithubRepo(t) ==
    /\ thread[t] = "github"
    /\ todo[t] # <<>>
    /\ Head(todo[t]).kind = "repo"
    /\ IF \/ casefold(Head(todo[t]).name) \in cur[t].args[1].ignore
          \/ cur[t].args[1].dry_run
       THEN UNCHANGED <<queue, unfinished_tasks, next_task>>
       ELSE append(MirrorTask(Head(todo[t]).ssh_url))
    /\ todo' = [todo EXCEPT ![t] = Tail(@)]
    /\ UNCHANGED <<max_tasks, thread, cur, raised, mainpc, seeds, n, rc,
                   executed>>
    /\ UNCHANGED <<runvars, testvars, localvars, joinvars, extractvars>>

\* mirror_org_repos returns: there is no next link
GithubReturn(t) ==
    /\ thread[t] = "github"
    /\ todo[t] = <<>>
    /\ thread' = [thread EXCEPT ![t] = "finally"]
    /\ UNCHANGED <<queue, unfinished_tasks, next_task, max_tasks, cur, todo,
                   raised, mainpc, seeds, n, rc, executed>>
    /\ UNCHANGED <<runvars, testvars, localvars, joinvars, extractvars>>

\* main with gather.github and no explicit remotes
InitGithub ==
    /\ InitQueue
    /\ \E org \in GithubOrgs : seeds = <<GithubTask(org)>>
    /\ gitmodules = TreeWorld
    /\ dirs = {}
    /\ aliases = <<>>
    /\ already_mirrored = <<>>
    /\ invocations = <<>>
    /\ returncode = [t \in Threads |-> 0]
    /\ local = [t \in Threads |-> <<>>]
    /\ ctr = <<>>
    /\ failing = {}
    /\ failearly = FALSE
    /\ InitRunOff
    /\ InitJoinOff
    /\ InitExtractOff

NextGithub ==
    \/ NextMirror
    \/ \E t \in Threads : GithubStart(t)
    \/ \E t \in Threads : GithubRequest(t)
    \/ \E t \in Threads : GithubRepo(t)
    \/ \E t \in Threads : GithubReturn(t)

SpecGithub == InitGithub /\ [][NextGithub]_vars

\* a worker thread has caught a failure of a request to Github
ProviderFailureInWorker(t) ==
    /\ thread[t] = "finally"
    /\ cur[t].action = "mirror_org_repos"
    /\ raised[t] = "Exception"

\* C16: a failure of a request to the provider happens while main seeds the
\* queue, before any task exists, and reaches main: no worker thread catches
\* it as the failure of a task, and main does not return 0 after it.
\* (Violated: mirror_org_repos is itself a task of the queue.)
C16_ProviderFailurePropagation ==
    \A t \in Threads : ~ProviderFailureInWorker(t)

(***************************************************************************)
(* The count of outstanding work.                                          *)
(***************************************************************************)
\* the thread has dequeued an item and has not yet called task_done for it
InTask(t) == thread[t] \notin {"unstarted", "get", "exited"}

NumInTask == Cardinality({t \in Threads : InTask(t)})

\* C17: in every state the counter of outstanding work is the number of
\* pending items plus the number of items being executed, so it is zero
\* exactly when nothing is pending and nothing executes; it goes up by one in
\* the step that makes an item pending, and down by one in the step that ends
\* an item's execution, whether the action raised or not, and in no other step.
C17_OutstandingCounter ==
    /\ [](unfinished_tasks = Len(queue) + NumInTask)
    /\ [](unfinished_tasks = 0 <=> (queue = <<>> /\ NumInTask = 0))
    /\ [][/\ Len(queue') > Len(queue)
             => unfinished_tasks' = unfinished_tasks + 1
          /\ unfinished_tasks' > unfinished_tasks
             => queue' = Append(queue, queue'[Len(queue')])
          /\ unfinished_tasks' < unfinished_tasks
             => \E t \in Threads :
                    /\ thread[t] = "finally"
                    /\ thread'[t] \in {"get", "exited"}
                    /\ unfinished_tasks' = unfinished_tasks - 1
          /\ \A t \in Threads :
                (InTask(t) /\ ~InTask(t)')
                    => unfinished_tasks' = unfinished_tasks - 1]_vars

\* a task has failed and is about to be counted as done, while others are
\* pending
C17_Witness ==
    \E t \in Threads :
        /\ thread[t] = "finally"
        /\ raised[t] = "Exception"
        /\ queue # <<>>
        /\ unfinished_tasks = Len(queue) + NumInTask

(***************************************************************************)
(* The mirror task of a target that is already claimed.                    *)
(***************************************************************************)
\* the path is an element of the list already_mirrored
InMirroredSet(path) ==
    \E i \in DOMAIN already_mirrored : already_mirrored[i] = path

\* the thread is about to run mirror_repo for a target that is claimed
AboutToSkip(t) ==
    /\ thread[t] = "call"
    /\ cur[t].action = "mirror_repo"
    /\ InMirroredSet(LocalOf(cur[t]))

\* C18: a mirror task whose local target is in already_mirrored when it tests
\* membership returns at once: its step ends the task without an exception
\* and leaves already_mirrored, the directories, the count of clone and update
\* invocations and the queue as they are. And already_mirrored only grows: in
\* every step the old list is a prefix of the new one.
C18_SkipIsNoOp ==
    [][/\ \A t \in Threads :
            (AboutToSkip(t) /\ thread'[t] # thread[t])
                => /\ thread'[t] = "finally"
                   /\ raised'[t] = "none"
                   /\ UNCHANGED <<already_mirrored, dirs, invocations, queue,
                                  next_task, unfinished_tasks, todo>>
       /\ Len(already_mirrored') >= Len(already_mirrored)
       /\ SubSeq(already_mirrored', 1, Len(already_mirrored))
            = already_mirrored]_vars

\* with one thread, the second task for repo.git has ended and the repository
\* was cloned once
C18_Witness ==
    /\ max_tasks = 1
    /\ thread[1] = "finally"
    /\ cur[1] = MirrorTask(RepoUrl)
    /\ raised[1] = "none"
    /\ Count(executed, MirrorTask(RepoUrl)) = 2
    /\ Count(invocations, RepoLocal) = 1
    /\ InMirroredSet(RepoLocal)

(***************************************************************************)
(* The return code of git clone and git remote update.                     *)
(***************************************************************************)
\* mirror_repo has gone on to git show HEAD:.gitmodules
HasReadSubmodules(t) == thread[t] \in ShowResults \cup {"submit"}

\* C19: when the clone or the update of a target returns with a non-zero
\* return code, the mirror task ends there: it does not read the submodules
\* file and submits no submodule. (Violated: the return code is logged and
\* mirror_repo goes on.)
C19_ExecutorFailureEndsTask ==
    \A t \in Threads : returncode[t] # 0 => ~HasReadSubmodules(t)

(***************************************************************************)
(* A repository without a submodules file.                                 *)
(***************************************************************************)
\* git show has reported that there is no .gitmodules at HEAD, or no commit
ReportedAbsent(t) == thread[t] \in {"show_no_gitmodules", "show_no_head"}

\* C20: when the read of the submodules file reports that the file is missing
\* or that the repository has no commits, the mirror task completes normally:
\* its next step ends it without an exception, nothing is submitted, and its
\* local target is in already_mirrored.
C20_AbsenceIsNotAnError ==
    [][\A t \in Threads :
            (ReportedAbsent(t) /\ thread'[t] # thread[t])
                => /\ thread'[t] = "finally"
                   /\ raised'[t] = "none"
                   /\ cur'[t] = cur[t]
                   /\ UNCHANGED <<queue, next_task, unfinished_tasks>>
                   /\ InMirroredSet(LocalOf(cur[t]))']_vars

\* the task for dep.git, which has no submodules file, has ended normally
\* after git show reported so
C20_Witness ==
    \E t \in Threads :
        /\ thread[t] = "finally"
        /\ cur[t] = MirrorTask(DepUrl)
        /\ raised[t] = "none"
        /\ gitmodules = TreeWorld
        /\ DepLocal \in dirs
        /\ Count(invocations, DepLocal) = 1
        /\ Count(executed, MirrorTask(DepUrl)) = 1
        /\ InMirroredSet(DepLocal)

(***************************************************************************)
(* mirror_repo: the URL a submodule's mirror task is given.                *)
(***************************************************************************)
\* the URLs _get_submodules may yield: relative ones, with and without "../"
\* and a leading '/', and absolute ones of each form
ExtractedUrls ==
    JoinRelatives
        \cup {RepoUrl, DepUrl, GhRepoUrl, ScpRelABC, <<".", "/", "x">>,
              <<".">>, <<".", ".", ".", "/", "x">>}

InitResolve ==
    /\ j_remote \in JoinRemotes
    /\ j_rel \in ExtractedUrls
    /\ j_repo = <<>>
    /\ j_out = <<>>
    /\ j_url = <<>>
    /\ j_back = <<>>
    /\ jpc = "parse"
    /\ queue = <<>>
    /\ unfinished_tasks = 0
    /\ next_task = 1
    /\ max_tasks = 0
    /\ thread = <<>>
    /\ cur = <<>>
    /\ todo = <<>>
    /\ raised = <<>>
    /\ mainpc = "off"
    /\ seeds = <<>>
    /\ n = 0
    /\ rc = -1
    /\ executed = <<>>
    /\ ctr = <<>>
    /\ failing = {}
    /\ failearly = FALSE
    /\ InitRunOff
    /\ InitLocalOff
    /\ InitExtractOff

\* the body of the loop over the submodules: the URL is joined to the remote
\* if it is a local reference, and is the argument of the task appended
Resolve ==
    /\ jpc = "join"
    /\ j_url' = SubmoduleUrl(j_repo, j_rel)
    /\ jpc' = "resolved"
    /\ UNCHANGED <<j_remote, j_rel, j_repo, j_out, j_back>>
    /\ UNCHANGED <<tqvars, runvars, testvars, localvars, extractvars>>

NextResolve == JoinParse \/ Resolve

SpecResolve == InitResolve /\ [][NextResolve]_vars

\* the URL begins with '/' or with "../"
IsAddressRelative(url) ==
    StartsWith(url, <<"/">>) \/ StartsWith(url, DotDotSlash)

\* C21: an extracted submodule URL is resolved against the parent address
\* (join, then deparse) if and only if it begins with '/' or with "../";
\* every other URL, ".." not followed by '/' included, is the task's argument
\* unchanged. (Violated: the test is startswith('..').)
C21_RelativeClassification ==
    jpc = "resolved" =>
        j_url = IF IsAddressRelative(j_rel)
                THEN deparse(join_url(j_repo, j_rel))
                ELSE j_rel

(***************************************************************************)
(* parse_url on file:// addresses.                                         *)
(***************************************************************************)
\* file:// followed by an absolute path
IsFileUrl(url) == StartsWith(url, FilePrefix) /\ At(url, 8) = "/"

\* C22: a string file://<absolute path>, e.g. file:///a/b, is parsed as the
\* File variant with the leading file:// stripped: its path is the absolute
\* path and its host is empty. (Violated: the SCP pattern matches it first,
\* with the host `file` and the path //<absolute path>.)
C22_FileUrl ==
    (jpc # "parse" /\ IsFileUrl(j_remote)) =>
        /\ j_repo.variant = "File"
        /\ j_repo.path = Drop(j_remote, 7)
        /\ j_repo.host = <<>>

(***************************************************************************)
(* The order of a repository's clone or update and its submodules' tasks.  *)
(***************************************************************************)
\* the elements of a sequence
Range(s) == { s[i] : i \in DOMAIN s }

\* the tasks mirror_repo submits for the submodules of the item's repository
SubmoduleTasks(item) ==
    IF LocalOf(item) \in DOMAIN gitmodules
    THEN { MirrorTask(SubmoduleUrl(RepoOf(item), u)) :
                u \in Range(get_submodules(gitmodules[LocalOf(item)])) }
    ELSE {}

\* the tasks main appends for the remotes of the configuration, in the runs
\* on the present submodules files
SeedTasks ==
    UNION { { MirrorTask(r.remotes[i]) : i \in DOMAIN r.remotes } :
                r \in { x \in MirrorRuns : x.world = gitmodules } }

\* the thread is about to start, or inside, the clone or update of its target
BeforeOrInIO(t) == thread[t] \in {"isdir", "clone", "update"}

\* C23: every submodule task of a repository is submitted only after the
\* repository's clone or update has returned: while a clone or update of a
\* target is running or about to start, no task for a submodule of that target
\* is pending. (Violated: two tasks for one target can both pass the test of
\* already_mirrored; one submits the submodules while the other still clones.)
C23_ParentBeforeChildren ==
    \A t \in Threads :
        (cur[t].action = "mirror_repo" /\ BeforeOrInIO(t)) =>
            \A i \in DOMAIN queue :
                queue[i] \in SeedTasks \/ queue[i] \notin SubmoduleTasks(cur[t])

(***************************************************************************)
(* A second run of main on the storage the first run left.                 *)
(***************************************************************************)
MaxRuns == 2

\* main is started again after it has returned: a new process, with a new
\* queue and a new Local, the remotes of the configuration as its tasks, and
\* the directories as the run before left them
Rerun ==
    /\ mainpc = "returned"
    /\ run_number < MaxRuns
    /\ run_number' = run_number + 1
    /\ stored' = dirs
    /\ \E r \in { x \in MirrorRuns : x.world = gitmodules } :
            seeds' = [i \in 1..Len(r.remotes) |-> MirrorTask(r.remotes[i])]
    /\ queue' = <<>>
    /\ unfinished_tasks' = 0
    /\ next_task' = 1
    /\ thread' = [t \in Threads |-> "unstarted"]
    /\ cur' = [t \in Threads |-> NoTask]
    /\ todo' = [t \in Threads |-> <<>>]
    /\ raised' = [t \in Threads |-> "none"]
    /\ mainpc' = "seed"
    /\ n' = 0
    /\ rc' = -1
    /\ executed' = <<>>
    /\ already_mirrored' = <<>>
    /\ invocations' = <<>>
    /\ returncode' = [t \in Threads |-> 0]
    /\ local' = [t \in Threads |-> <<>>]
    /\ UNCHANGED <<max_tasks, aliases, dirs, gitmodules>>
    /\ UNCHANGED <<testvars, joinvars, extractvars>>

\* the first run begins with no mirror
InitRerun == InitMirror /\ dirs = {}

NextRerun == NextMirror \/ Rerun

SpecRerun == InitRerun /\ [][NextRerun]_vars

\* C24: for every target a task processes, exactly one of clone and update is
\* invoked, once: clone if and only if the local target is no directory when
\* the task looks; then the task goes on without the other. Directories stay.
\* So in a run after a first run, every target that the first run left on
\* storage is updated and not cloned again.
C24_CloneVersusUpdate ==
    /\ [][\A t \in Threads :
            /\ (thread[t] = "isdir" /\ thread'[t] # "isdir")
                => /\ thread'[t] = "clone" <=> local[t] \notin dirs
                   /\ thread'[t] = "update" <=> local[t] \in dirs
                   /\ Count(invocations', local[t])
                        = Count(invocations, local[t]) + 1
            /\ (InIO(t) /\ thread'[t] # thread[t])
                => /\ thread'[t] \in {"claim", "finally"}
                   /\ invocations' = invocations
            /\ dirs \subseteq dirs']_vars
    /\ [](\A t \in Threads :
            (run_number > 1 /\ thread[t] = "clone") => local[t] \notin stored)
    /\ [](stored \subseteq dirs)

\* in the second run dep.git, which the first run cloned, is being updated
C24_Witness ==
    \E t \in Threads :
        /\ run_number = 2
        /\ gitmodules = TreeWorld
        /\ thread[t] = "update"
        /\ local[t] = DepLocal
        /\ DepLocal \in stored
        /\ Count(invocations, DepLocal) = 1

(***************************************************************************)
(* The degree of parallelism.                                              *)
(***************************************************************************)
\* C25: in every state at most max_tasks tasks are being executed, however
\* many are pending or get submitted: the items taken from the queue and not
\* yet done, counted by the queue and counted over the threads, are no more
\* than the worker count the queue was built with; and no thread beyond
\* max_tasks ever runs.
C25_BoundedParallelism ==
    /\ NumInTask <= max_tasks
    /\ unfinished_tasks - Len(queue) <= max_tasks
    /\ \A t \in DOMAIN thread : thread[t] # "unstarted" => t <= max_tasks

\* every worker is executing a task of the test while more tasks are pending
C25_Witness ==
    /\ max_tasks = MaxTasks
    /\ NumInTask = max_tasks
    /\ \A t \in Threads : cur[t].action = "task"
    /\ \E i \in DOMAIN queue : queue[i].action = "task"

(***************************************************************************)
(* Remotes of different forms with one host and path.                      *)
(***************************************************************************)
\* https://host:8443/org/repo.git
HttpsRepoUrl ==
    <<"h", "t", "t", "p", "s", ":", "/", "/", "h", "o", "s", "t", ":", "8",
      "4", "4", "3", "/", "o", "r", "g", "/", "r", "e", "p", "o", ".", "g",
      "i", "t">>

\* the remotes of the configuration: repo.git of host, by ssh with a user, by
\* https with a port, and in SCP form
SameTargetRemotes == <<RepoUrl, HttpsRepoUrl, GhRepoUrl>>

InitIdentity ==
    /\ InitQueue
    /\ seeds = [i \in 1..Len(SameTargetRemotes) |->
                    MirrorTask(SameTargetRemotes[i])]
    /\ gitmodules = TreeWorld
    /\ dirs \in {{}, {RepoLocal}}
    /\ aliases = <<>>
    /\ already_mirrored = <<>>
    /\ invocations = <<>>
    /\ returncode = [t \in Threads |-> 0]
    /\ local = [t \in Threads |-> <<>>]
    /\ ctr = <<>>
    /\ failing = {}
    /\ failearly = FALSE
    /\ run_number = 1
    /\ stored = dirs
    /\ InitJoinOff
    /\ InitExtractOff

SpecIdentity == InitIdentity /\ [][NextMirror]_vars

\* C26: the local target is root/host/path without its leading slashes and
\* does not depend on scheme, user or port: the three remotes have the same
\* local target. And in one run only the first of them to be processed is
\* cloned or updated; the others are skipped as already claimed. (Violated:
\* the targets are the same, but the claim is made after the clone.)
C26_TargetIdentity ==
    /\ \A i \in DOMAIN SameTargetRemotes :
            LocalPath(parse_url(SameTargetRemotes[i]))
                = <<Root>> \o <<parse_url(RepoUrl).host>>
                    \o SelectSeq(Split(LStripSlash(parse_url(RepoUrl).path)),
                                 IsPart)
    /\ Count(invocations, RepoLocal) <= 1

(***************************************************************************)
(* The termination notices.                                                *)
(***************************************************************************)
\* the termination notices pending in the queue
NumKillPending == Cardinality({ i \in DOMAIN queue : queue[i] = KillTask })

\* the termination notices appended so far: those dequeued and those pending
NumKillSent == Count(executed, KillTask) + NumKillPending

\* C27: runall appends exactly max_tasks termination notices, after the join
\* of the queue; every thread dequeues exactly one and leaves its loop right
\* after it, so none dequeues two and none is left waiting on the empty queue;
\* and when runall has returned nothing is pending and the count of
\* outstanding work is zero.
C27_SentinelAccounting ==
    /\ NumKillSent = (IF mainpc = "kill" THEN n
                      ELSE IF mainpc \in {"wait", "returned"} THEN max_tasks
                      ELSE 0)
    /\ Count(executed, KillTask)
            = Cardinality({ t \in Threads : cur[t] = KillTask })
    /\ \A t \in Threads :
        /\ cur[t] = KillTask => thread[t] \in {"call", "finally", "exited"}
        /\ thread[t] = "exited" => cur[t] = KillTask
    /\ mainpc = "returned" =>
        /\ \A t \in Threads : thread[t] = "exited"
        /\ Count(executed, KillTask) = max_tasks
        /\ queue = <<>>
        /\ unfinished_tasks = 0

\* runall has returned from two threads, after a run in which a task raised
C27_Witness ==
    /\ mainpc = "returned"
    /\ max_tasks = 2
    /\ failing # {}
    /\ Count(executed, KillTask) = 2
    /\ \A t \in Threads : thread[t] = "exited" /\ cur[t] = KillTask

====
